---- MODULE Spec2Model ----
(***************************************************************************)
(* Model of the authentication and credential-lifecycle subsystem of the   *)
(* food-delivery backend (src/server.js): the users table, the seven       *)
(* account operations (register, verify-email, resend-verification,        *)
(* forgot-password, reset-password, login, change-password), the auth      *)
(* gate, and the database / mock mode switch.                              *)
(*                                                                         *)
(* A request handler is an async function: it runs without interruption    *)
(* from one `await pool.query` to the next.  Each handler is therefore     *)
(* modelled by one action per store query: the action holds the query and  *)
(* all the synchronous code that follows it up to the next query or the    *)
(* response.  Awaits that touch no shared state (bcrypt, the mock mailer)   *)
(* are part of the action of the query that follows them.                  *)
(***************************************************************************)
EXTENDS Integers, Sequences, FiniteSets, TLC

VARIABLES
    isDatabaseConnected,  \* server.js:23, set by initializeDatabase
    requireVerification,  \* process.env.REQUIRE_EMAIL_VERIFICATION === 'true'
    storeUp,              \* TRUE while pool.query answers, FALSE while it rejects
    mailer,               \* what sendEmail is: the mock of server.js, or a mail service
    users,                \* the users table: id -> row
    nextId,               \* the SERIAL sequence of users.id
    nextTok,              \* the next value crypto.randomBytes yields
    now,                  \* the clock (Date.now / new Date), in hours
    ticks,                \* how often the clock has advanced
    wallet,               \* the session tokens the clients hold, oldest first
    reqs,                 \* the request handlers in flight
    out,                  \* the request answered by the last step, if any
    consumed              \* history: token -> number of requests it let succeed

vars == <<isDatabaseConnected, requireVerification, storeUp, mailer, users, nextId,
          nextTok, now, ticks, wallet, reqs, out, consumed>>

----------------------------------------------------------------------------
(* Bounds of the model *)

MaxUsers == 2
MaxTokens == 3
MaxTicks == 2
MaxReqs == 2
MaxSessions == 1
NumSalts == 1

Slots == 1..MaxReqs
Salts == 1..NumSalts

----------------------------------------------------------------------------
(* Program constants *)

NULL == -1          \* SQL NULL in a token or expiry column
NoToken == 0        \* a token that is absent from the request (falsy)
GuessToken == 99    \* a token string no account was ever given
VerifyTTL == 24     \* 24 * 60 * 60 * 1000 ms, in hours
ResetTTL == 1       \* 60 * 60 * 1000 ms, in hours
JwtTTL == 168       \* expiresIn: '7d', in hours
MinPassword == 6    \* password.length < 6
EpochBase == 1000   \* Date.now() is an epoch timestamp, far above any SERIAL id
MockUserId == 1     \* generateToken(1) of the mock login
BcryptMaxBytes == 72  \* bcryptjs uses the first 72 bytes of the password

(* The inputs of the requests: strings are sequences of characters. *)
EmailA == <<"a", "@", "x", ".", "c">>
EmailB == <<"b", "@", "x", ".", "c">>
EmailNoAt == <<"a", "x", ".", "c">>
Missing == <<>>
Pw1 == <<"s", "e", "c", "r", "e", "t", "1">>
Pw2 == <<"n", "e", "w", "p", "a", "s", "s", "1">>
PwShort == <<"a", "b", "c">>

\* Two passwords of 73 characters that differ in the last one only
PwLongA == [i \in 1..(BcryptMaxBytes + 1) |-> IF i > BcryptMaxBytes THEN "a" ELSE "x"]
PwLongB == [i \in 1..(BcryptMaxBytes + 1) |-> IF i > BcryptMaxBytes THEN "b" ELSE "x"]

Ann == <<"A", "n", "n">>

Emails == {EmailA, EmailB}
Passwords == {Pw1, Pw2}
TickSteps == {ResetTTL, VerifyTTL}

----------------------------------------------------------------------------
(* Helper functions of server.js *)

\* A minter whose tokens last one day
generateTokenOneDay(userId) ==
    [userId |-> userId, iat |-> now, exp |-> now + VerifyTTL, sig |-> "secret"]

\* jwt.sign({ userId }, secret, { expiresIn: '7d' }): the payload and its signature
generateToken(userId) ==
    [userId |-> userId, iat |-> now, exp |-> now + JwtTTL, sig |-> "secret"]

\* The text 'Bearer ' in the value of an Authorization header.  The value is a
\* sequence of pieces, each of them this text or a token.
BearerPrefix == [userId |-> 0, iat |-> 0, exp |-> 0, sig |-> "Bearer "]

\* jwt.verify(token, secret): the payload, or the error it throws.  A string
\* that is not a signed token has no signature part (sig = "", or the text
\* 'Bearer '); the signature is checked before the exp claim, and a token is
\* expired from the instant exp on.
jwtVerify(token) ==
    IF token.sig \in {"", "Bearer "}
    THEN [error |-> "jwt malformed", payload |-> <<>>]
    ELSE IF token.sig # "secret"
    THEN [error |-> "invalid signature", payload |-> <<>>]
    ELSE IF now >= token.exp
    THEN [error |-> "jwt expired", payload |-> <<>>]
    ELSE [error |-> "", payload |-> <<token>>]

\* A verify that does not treat an expired token as an error
verifyTokenIgnoresExpiry(token) ==
    IF jwtVerify(token).error \in {"", "jwt expired"} THEN <<token>> ELSE <<>>

\* A verify that accepts a token for one day only
verifyTokenOneDay(token) ==
    IF jwtVerify(token).error # "" \/ now >= token.iat + VerifyTTL THEN <<>>
    ELSE jwtVerify(token).payload

\* verifyToken: try { return jwt.verify(..) } catch { return null } (null is <<>>)
verifyToken(token) ==
    IF jwtVerify(token).error # "" THEN <<>> ELSE jwtVerify(token).payload

\* A gate that reads the payload without checking signature or expiry
getUserIdFromTokenUnverified(header) ==
    IF header = <<>> THEN 0 ELSE header[1].userId

\* authorization.replace('Bearer ', ''): the value without the first
\* occurrence of the text 'Bearer '
replaceBearer(header) ==
    LET at == {i \in 1..Len(header) : header[i] = BearerPrefix}
    IN  IF at = {} THEN header
        ELSE LET i == CHOOSE k \in at : \A m \in at : k <= m
             IN  SubSeq(header, 1, i - 1) \o SubSeq(header, i + 1, Len(header))

\* The string handed to jwt.verify: one token, or a text that is not a JWT
tokenString(pieces) ==
    IF Len(pieces) = 1 THEN pieces[1]
    ELSE [userId |-> 0, iat |-> 0, exp |-> 0, sig |-> ""]

\* A gate that takes a token only after the text 'Bearer '
getUserIdFromTokenStrict(header) ==
    IF Len(header) # 2 \/ header[1] # BearerPrefix THEN 0
    ELSE LET decoded == verifyToken(header[2])
         IN  IF decoded # <<>> THEN decoded[1].userId ELSE 0

\* getUserIdFromToken: the header is <<>> when absent; null is 0, as falsy as
\* the user id 0
getUserIdFromToken(header) ==
    LET token == replaceBearer(header)
    IN  IF token = <<>> THEN 0
        ELSE LET decoded == verifyToken(tokenString(token))
             IN  IF decoded # <<>> THEN decoded[1].userId ELSE 0

\* bcrypt.hash(password, 10): the salt is drawn at random and embedded in the digest
hashPassword(password, salt) ==
    <<"$2a$10$", salt,
      IF Len(password) > BcryptMaxBytes THEN SubSeq(password, 1, BcryptMaxBytes)
      ELSE password>>

\* bcrypt.compare: recomputes with the salt embedded in the digest
comparePassword(password, hashedPassword) ==
    hashedPassword = hashPassword(password, hashedPassword[2])

\* /^[^\s@]+@[^\s@]+\.[^\s@]+$/.test(email)
Plain(s, lo, hi) ==
    lo <= hi /\ \A k \in lo..hi : s[k] \notin {"@", " "}

\* A test that asks for local@domain only
emailRegexTestNoTld(email) ==
    \E i \in 1..Len(email) :
        /\ email[i] = "@"
        /\ Plain(email, 1, i - 1)
        /\ Plain(email, i + 1, Len(email))

emailRegexTest(email) ==
    \E i \in 1..Len(email) : \E j \in 1..Len(email) :
        /\ i < j
        /\ email[i] = "@"
        /\ email[j] = "."
        /\ Plain(email, 1, i - 1)
        /\ Plain(email, i + 1, j - 1)
        /\ Plain(email, j + 1, Len(email))

\* Mutant: the comparison the other way round
isExpiredInverted(expires) == IF expires = NULL THEN TRUE ELSE now < expires

\* A comparison that counts the expiry instant itself as expired
isExpiredAtInstant(expires) == IF expires = NULL THEN TRUE ELSE expires <= now

\* `expires < new Date()`: a null operand converts to 0, before any date
isExpired(expires) == IF expires = NULL THEN TRUE ELSE expires < now

\* sendEmail: the mock logs and returns true; the mail service that takes its
\* place in production returns true, returns false or throws
sendEmail ==
    IF mailer = "mock" THEN {"true"} ELSE {"true", "false", "throws"}

----------------------------------------------------------------------------
(* Responses: res.status(status).json({success, error | message, access_token}) *)

Json(status, success, text) ==
    [status |-> status, success |-> success, text |-> text, access_token |-> <<>>]

JsonToken(status, success, text, token) ==
    [status |-> status, success |-> success, text |-> text, access_token |-> <<token>>]

NoResponse == Json(0, FALSE, "")
ServerError == Json(500, FALSE, "server error")
DuplicateEmail == Json(400, FALSE, "user with this email already exists")
InvalidVerifyToken == Json(400, FALSE, "invalid or outdated verification token")
InvalidResetToken == Json(400, FALSE, "invalid or outdated reset token")
TokenExpired == Json(400, FALSE, "token expired")
InvalidCredentials == Json(401, FALSE, "wrong email or password")
EmailNotVerified == Json(403, FALSE, "verify your email before login")
Unauthorized == Json(401, FALSE, "authorization required")

----------------------------------------------------------------------------
(* Requests *)

NoRow == [id |-> 0, expires |-> NULL, email |-> Missing]

IdleReq ==
    [op |-> "none", pc |-> "idle", name |-> Missing, email |-> Missing,
     password |-> Missing, current |-> Missing, token |-> NoToken,
     auth |-> <<>>, userId |-> 0, row |-> NoRow, late |-> FALSE,
     mailed |-> NoToken, resp |-> NoResponse]

Free(s) == reqs[s].pc = "idle"

\* A new request is taken by the lowest slot that is not in flight.
CanStart(s) == Free(s) /\ \A t \in Slots : t < s => ~Free(t)

\* The first part of a handler answered the request: res.json(resp)
Answer(s, req, resp) ==
    /\ reqs' = reqs
    /\ out' = [req EXCEPT !.pc = "done", !.resp = resp]

\* The first query of a handler returned `row`; the handler goes on to its update
Await(s, req, row) ==
    /\ reqs' = [reqs EXCEPT ![s] = [req EXCEPT !.pc = "write", !.row = row]]
    /\ out' = IdleReq

\* The update of a handler is done: res.json(resp)
Finish(s, resp) ==
    /\ reqs' = [reqs EXCEPT ![s] = IdleReq]
    /\ out' = [reqs[s] EXCEPT !.pc = "done", !.resp = resp]

\* The update of a handler is done and sendEmail has returned `sent` or has
\* thrown: a throw is caught by the handler's catch block, which answers 500
FinishMail(s, resp, token, sent) ==
    /\ reqs' = [reqs EXCEPT ![s] = IdleReq]
    /\ out' = [reqs[s] EXCEPT !.pc = "done",
                              !.mailed = IF sent = "true" THEN token ELSE NoToken,
                              !.resp = IF sent = "throws" THEN ServerError ELSE resp]

\* The outcome of the first part of a handler: a response, or a row to update
First(s, req, resp, row) ==
    IF resp = NoResponse THEN Await(s, req, row) ELSE Answer(s, req, resp)

Pending(ops) == {s \in Slots : reqs[s].pc = "write" /\ reqs[s].op \in ops}

\* Room left for one more row / one more random token, handlers in flight included
RoomForUser == nextId + Cardinality(Pending({"register"})) <= MaxUsers
RoomForToken ==
    nextTok + Cardinality(Pending({"register", "resend", "forgot"})) <= MaxTokens

ByEmail(email) == {id \in DOMAIN users : users[id].email = email}

\* The clients keep the session tokens of the responses while they have room.
Keep(resp) ==
    wallet' = IF resp.access_token # <<>> /\ Len(wallet) < MaxSessions
              THEN wallet \o resp.access_token
              ELSE wallet

----------------------------------------------------------------------------
(* POST /register *)

RegisterResult(req) ==
    IF req.name = Missing \/ req.email = Missing \/ req.password = Missing
    THEN Json(400, FALSE, "fill all required fields")
    ELSE IF ~emailRegexTest(req.email)
    THEN Json(400, FALSE, "invalid email")
    ELSE IF Len(req.password) < MinPassword
    THEN Json(400, FALSE, "password too short")
    ELSE IF ~isDatabaseConnected
    THEN JsonToken(200, TRUE, "registered (test mode)", generateToken(EpochBase + now))
    ELSE IF ~storeUp
    THEN ServerError
    ELSE IF ByEmail(req.email) # {}
    THEN DuplicateEmail
    ELSE NoResponse

Register(s, body) ==
    /\ CanStart(s)
    /\ RoomForUser /\ RoomForToken
    /\ LET req == [IdleReq EXCEPT !.op = "register", !.name = body.name,
                                  !.email = body.email, !.password = body.password]
           resp == RegisterResult(req)
       IN  First(s, req, resp, NoRow) /\ Keep(resp)
    /\ UNCHANGED <<isDatabaseConnected, mailer, requireVerification, storeUp, users,
                   nextId, nextTok, now, ticks, consumed>>

\* A row whose verification token lives as long as a reset token
NewUserShortExpiry(req, salt) ==
    [email |-> req.email,
     password |-> hashPassword(req.password, salt),
     is_email_verified |-> FALSE,
     email_verification_token |-> nextTok,
     email_verification_expires |-> now + ResetTTL,
     password_reset_token |-> NULL,
     password_reset_expires |-> NULL]

\* INSERT INTO users (..., password, email_verification_token, expires): the
\* other columns take their defaults
NewUser(req, salt) ==
    [email |-> req.email,
     password |-> hashPassword(req.password, salt),
     is_email_verified |-> FALSE,
     email_verification_token |-> nextTok,
     email_verification_expires |-> now + VerifyTTL,
     password_reset_token |-> NULL,
     password_reset_expires |-> NULL]

\* A table whose email column is not UNIQUE
NoUniqueConstraint(email) == FALSE

\* email VARCHAR(100) UNIQUE NOT NULL: the INSERT of a second row with the email
\* is rejected
UniqueViolation(email) == ByEmail(email) # {}

\* The INSERT: a row with the same email violates UNIQUE and the query rejects.
RegisterInsert(s) ==
    /\ reqs[s].pc = "write" /\ reqs[s].op = "register"
    /\ IF ~storeUp \/ UniqueViolation(reqs[s].email)
       THEN /\ Finish(s, ServerError)
            /\ UNCHANGED <<users, nextId, nextTok, wallet>>
       ELSE \E salt \in Salts : \E sent \in sendEmail :
            LET resp == JsonToken(200, TRUE, "registered", generateToken(nextId))
            IN  /\ users' = [id \in DOMAIN users \cup {nextId} |->
                               IF id = nextId THEN NewUser(reqs[s], salt)
                               ELSE users[id]]
                /\ nextId' = nextId + 1
                /\ nextTok' = nextTok + 1
                /\ FinishMail(s, resp, nextTok, sent)
                /\ Keep(IF sent = "throws" THEN ServerError ELSE resp)
    /\ UNCHANGED <<isDatabaseConnected, mailer, requireVerification, storeUp, now,
                   ticks, consumed>>

----------------------------------------------------------------------------
(* GET /verify-email *)

VerifyRows(token) ==
    {id \in DOMAIN users : /\ users[id].email_verification_token = token
                           /\ users[id].is_email_verified = FALSE}

VerifyRow(token) ==
    LET id == CHOOSE i \in VerifyRows(token) : \A k \in VerifyRows(token) : i <= k
    IN  [id |-> id, expires |-> users[id].email_verification_expires,
         email |-> Missing]

VerifyResult(req) ==
    IF req.token = NoToken
    THEN Json(400, FALSE, "verification token missing")
    ELSE IF ~isDatabaseConnected
    THEN Json(200, TRUE, "email verified (test mode)")
    ELSE IF ~storeUp
    THEN ServerError
    ELSE IF VerifyRows(req.token) = {}
    THEN InvalidVerifyToken
    ELSE IF isExpired(VerifyRow(req.token).expires)
    THEN TokenExpired
    ELSE NoResponse

VerifyEmail(s, token) ==
    /\ CanStart(s)
    /\ LET req == [IdleReq EXCEPT !.op = "verify", !.token = token,
                                  !.late = (token \in DOMAIN consumed /\ consumed[token] > 0)]
           resp == VerifyResult(req)
       IN  First(s, req, resp,
                 IF resp = NoResponse THEN VerifyRow(token) ELSE NoRow)
    /\ UNCHANGED <<isDatabaseConnected, mailer, requireVerification, storeUp, users,
                   nextId, nextTok, now, ticks, wallet, consumed>>

\* Mutants of the UPDATE: one that changes no row, one that sets the flag only,
\* one that leaves the expiry behind
VerifyWriteNothing(row) == row

VerifyWriteKeepsExpiry(row) ==
    [row EXCEPT !.is_email_verified = TRUE, !.email_verification_token = NULL]

VerifyWriteFlagOnly(row) == [row EXCEPT !.is_email_verified = TRUE]

\* UPDATE users SET is_email_verified = true, token = NULL, expires = NULL WHERE id
VerifyWrite(row) ==
    [row EXCEPT !.is_email_verified = TRUE,
                !.email_verification_token = NULL,
                !.email_verification_expires = NULL]

VerifyUpdate(s) ==
    /\ reqs[s].pc = "write" /\ reqs[s].op = "verify"
    /\ IF ~storeUp
       THEN Finish(s, ServerError) /\ UNCHANGED <<users, consumed>>
       ELSE /\ users' = [users EXCEPT ![reqs[s].row.id] = VerifyWrite(@)]
            /\ Finish(s, Json(200, TRUE, "email verified"))
            /\ consumed' = [consumed EXCEPT ![reqs[s].token] = @ + 1]
    /\ UNCHANGED <<isDatabaseConnected, mailer, requireVerification, storeUp, nextId,
                   nextTok, now, ticks, wallet>>

----------------------------------------------------------------------------
(* The auth gate *)

\* authenticate: 401 unless getUserIdFromToken yields a truthy user id
authenticate(header) ==
    IF getUserIdFromToken(header) = 0 THEN Unauthorized ELSE NoResponse

\* The Authorization headers a client can send: none, a token it holds, a token
\* signed with another key
ForgedToken == [userId |-> 1, iat |-> 0, exp |-> JwtTTL, sig |-> "forged"]

\* A header whose token is not a JWT at all
MalformedToken == [userId |-> 0, iat |-> 0, exp |-> 0, sig |-> ""]

\* The session token of a mock-mode login (generateToken(1)) of a run of the
\* server that had no database: signed with the same key, it names the user
\* id 1 whether or not the table has such a row
MockSessionToken == [userId |-> MockUserId, iat |-> 0, exp |-> JwtTTL, sig |-> "secret"]

\* A token signed with the server's key that names the user id 0
ZeroToken == [userId |-> 0, iat |-> 0, exp |-> JwtTTL, sig |-> "secret"]

----------------------------------------------------------------------------
(* POST /resend-verification *)

ResendResult(req) ==
    IF authenticate(req.auth) # NoResponse
    THEN authenticate(req.auth)
    ELSE IF ~isDatabaseConnected
    THEN Json(200, TRUE, "verification mail sent (test mode)")
    ELSE IF ~storeUp
    THEN ServerError
    ELSE IF req.userId \notin DOMAIN users
    THEN Json(404, FALSE, "user not found")
    ELSE IF users[req.userId].is_email_verified
    THEN Json(400, FALSE, "email already verified")
    ELSE NoResponse

ResendVerification(s, header) ==
    /\ CanStart(s)
    /\ RoomForToken
    /\ LET req == [IdleReq EXCEPT !.op = "resend", !.auth = header,
                                  !.userId = getUserIdFromToken(header)]
           resp == ResendResult(req)
       IN  First(s, req, resp,
                 IF resp = NoResponse
                 THEN [id |-> req.userId, expires |-> NULL,
                       email |-> users[req.userId].email]
                 ELSE NoRow)
    /\ UNCHANGED <<isDatabaseConnected, mailer, requireVerification, storeUp, users,
                   nextId, nextTok, now, ticks, wallet, consumed>>

\* UPDATE users SET email_verification_token = $1, expires = $2 WHERE id = $3
ResendWrite(row) ==
    [row EXCEPT !.email_verification_token = nextTok,
                !.email_verification_expires = now + VerifyTTL]

ResendUpdate(s) ==
    /\ reqs[s].pc = "write" /\ reqs[s].op = "resend"
    /\ IF ~storeUp
       THEN Finish(s, ServerError) /\ UNCHANGED <<users, nextTok>>
       ELSE \E sent \in sendEmail :
            /\ users' = [users EXCEPT ![reqs[s].userId] = ResendWrite(@)]
            /\ nextTok' = nextTok + 1
            /\ FinishMail(s, Json(200, TRUE, "verification mail sent again"),
                          nextTok, sent)
    /\ UNCHANGED <<isDatabaseConnected, mailer, requireVerification, storeUp, nextId,
                   now, ticks, wallet, consumed>>

----------------------------------------------------------------------------
(* POST /forgot-password *)

ForgotUnknown == Json(200, TRUE, "if a user with this email exists, instructions were sent")
ForgotKnown == Json(200, TRUE, "password reset instructions were sent to the email")

ForgotRow(email) ==
    LET id == CHOOSE i \in ByEmail(email) : \A k \in ByEmail(email) : i <= k
    IN  [id |-> id, expires |-> NULL, email |-> users[id].email]

ForgotResult(req) ==
    IF req.email = Missing
    THEN Json(400, FALSE, "enter email")
    ELSE IF ~isDatabaseConnected
    THEN Json(200, TRUE, "password reset instructions were sent (test mode)")
    ELSE IF ~storeUp
    THEN ServerError
    ELSE IF ByEmail(req.email) = {}
    THEN ForgotUnknown
    ELSE NoResponse

ForgotPassword(s, email) ==
    /\ CanStart(s)
    /\ RoomForToken
    /\ LET req == [IdleReq EXCEPT !.op = "forgot", !.email = email]
           resp == ForgotResult(req)
       IN  First(s, req, resp,
                 IF resp = NoResponse THEN ForgotRow(email) ELSE NoRow)
    /\ UNCHANGED <<isDatabaseConnected, mailer, requireVerification, storeUp, users,
                   nextId, nextTok, now, ticks, wallet, consumed>>

\* A write that gives the reset token the life of a verification token
ForgotWriteLongExpiry(row) ==
    [row EXCEPT !.password_reset_token = nextTok,
                !.password_reset_expires = now + VerifyTTL]

\* UPDATE users SET password_reset_token = $1, password_reset_expires = $2 WHERE id
ForgotWrite(row) ==
    [row EXCEPT !.password_reset_token = nextTok,
                !.password_reset_expires = now + ResetTTL]

ForgotUpdate(s) ==
    /\ reqs[s].pc = "write" /\ reqs[s].op = "forgot"
    /\ IF ~storeUp
       THEN Finish(s, ServerError) /\ UNCHANGED <<users, nextTok>>
       ELSE \E sent \in sendEmail :
            /\ users' = [users EXCEPT ![reqs[s].row.id] = ForgotWrite(@)]
            /\ nextTok' = nextTok + 1
            /\ FinishMail(s, ForgotKnown, nextTok, sent)
    /\ UNCHANGED <<isDatabaseConnected, mailer, requireVerification, storeUp, nextId,
                   now, ticks, wallet, consumed>>

----------------------------------------------------------------------------
(* POST /reset-password *)

\* A SELECT that finds verified accounts only
ResetRowsVerifiedOnly(token) ==
    {id \in DOMAIN users : /\ users[id].password_reset_token = token
                           /\ users[id].is_email_verified}

ResetRows(token) ==
    {id \in DOMAIN users : users[id].password_reset_token = token}

ResetRow(token) ==
    LET id == CHOOSE i \in ResetRows(token) : \A k \in ResetRows(token) : i <= k
    IN  [id |-> id, expires |-> users[id].password_reset_expires,
         email |-> Missing]

\* A handler that does not check the length of the new password
ResetResultNoLength(req) ==
    IF req.token = NoToken \/ req.password = Missing
    THEN Json(400, FALSE, "token and new password are required")
    ELSE IF ~isDatabaseConnected
    THEN Json(200, FALSE, "password reset is not available in test mode")
    ELSE IF ~storeUp
    THEN ServerError
    ELSE IF ResetRows(req.token) = {}
    THEN InvalidResetToken
    ELSE IF isExpired(ResetRow(req.token).expires)
    THEN TokenExpired
    ELSE NoResponse

ResetResult(req) ==
    IF req.token = NoToken \/ req.password = Missing
    THEN Json(400, FALSE, "token and new password are required")
    ELSE IF Len(req.password) < MinPassword
    THEN Json(400, FALSE, "password too short")
    ELSE IF ~isDatabaseConnected
    THEN Json(200, FALSE, "password reset is not available in test mode")
    ELSE IF ~storeUp
    THEN ServerError
    ELSE IF ResetRows(req.token) = {}
    THEN InvalidResetToken
    ELSE IF isExpired(ResetRow(req.token).expires)
    THEN TokenExpired
    ELSE NoResponse

ResetPassword(s, token, password) ==
    /\ CanStart(s)
    /\ LET req == [IdleReq EXCEPT !.op = "reset", !.token = token,
                                  !.password = password]
           resp == ResetResult(req)
       IN  First(s, req, resp,
                 IF resp = NoResponse THEN ResetRow(token) ELSE NoRow)
    /\ UNCHANGED <<isDatabaseConnected, mailer, requireVerification, storeUp, users,
                   nextId, nextTok, now, ticks, wallet, consumed>>

\* A write that also puts the account back to unverified
ResetWriteUnverifies(row, hashedPassword) ==
    [row EXCEPT !.password = hashedPassword,
                !.is_email_verified = FALSE,
                !.password_reset_token = NULL,
                !.password_reset_expires = NULL]

\* A write that leaves the expiry behind
ResetWriteKeepsExpiry(row, hashedPassword) ==
    [row EXCEPT !.password = hashedPassword, !.password_reset_token = NULL]

\* A write that clears the pair and leaves the password as it was
ResetWriteKeepsPassword(row, hashedPassword) ==
    [row EXCEPT !.password_reset_token = NULL,
                !.password_reset_expires = NULL]

\* UPDATE users SET password = $1, reset token = NULL, reset expires = NULL WHERE id
ResetWrite(row, hashedPassword) ==
    [row EXCEPT !.password = hashedPassword,
                !.password_reset_token = NULL,
                !.password_reset_expires = NULL]

ResetUpdate(s) ==
    /\ reqs[s].pc = "write" /\ reqs[s].op = "reset"
    /\ IF ~storeUp
       THEN Finish(s, ServerError) /\ UNCHANGED <<users, consumed>>
       ELSE \E salt \in Salts :
            /\ users' = [users EXCEPT ![reqs[s].row.id] =
                            ResetWrite(@, hashPassword(reqs[s].password, salt))]
            /\ Finish(s, Json(200, TRUE, "password changed"))
            /\ consumed' = [consumed EXCEPT ![reqs[s].token] = @ + 1]
    /\ UNCHANGED <<isDatabaseConnected, mailer, requireVerification, storeUp, nextId,
                   nextTok, now, ticks, wallet>>

----------------------------------------------------------------------------
(* POST /login *)

LoginRow(email) ==
    CHOOSE i \in ByEmail(email) : \A k \in ByEmail(email) : i <= k

\* A login that does not compare the password
LoginResultNoCompare(req) ==
    IF req.email = Missing \/ req.password = Missing
    THEN Json(400, FALSE, "enter email and password")
    ELSE IF ByEmail(req.email) = {}
    THEN InvalidCredentials
    ELSE JsonToken(200, TRUE, "logged in", generateToken(LoginRow(req.email)))

\* A login whose catch block treats a failed query as an empty result
LoginResultSwallowsFault(req) ==
    IF req.email = Missing \/ req.password = Missing
    THEN Json(400, FALSE, "enter email and password")
    ELSE IF ~isDatabaseConnected
    THEN JsonToken(200, TRUE, "logged in (test mode)", generateToken(MockUserId))
    ELSE IF ~storeUp \/ ByEmail(req.email) = {}
    THEN InvalidCredentials
    ELSE IF ~comparePassword(req.password, users[LoginRow(req.email)].password)
    THEN InvalidCredentials
    ELSE IF ~users[LoginRow(req.email)].is_email_verified /\ requireVerification
    THEN EmailNotVerified
    ELSE JsonToken(200, TRUE, "logged in", generateToken(LoginRow(req.email)))

\* A login that looks at the verification flag before the password
LoginResultFlagFirst(req) ==
    IF req.email = Missing \/ req.password = Missing
    THEN Json(400, FALSE, "enter email and password")
    ELSE IF ByEmail(req.email) = {}
    THEN InvalidCredentials
    ELSE IF ~users[LoginRow(req.email)].is_email_verified /\ requireVerification
    THEN EmailNotVerified
    ELSE IF ~comparePassword(req.password, users[LoginRow(req.email)].password)
    THEN InvalidCredentials
    ELSE JsonToken(200, TRUE, "logged in", generateToken(LoginRow(req.email)))

\* The handler reads the store once (the SELECT); bcrypt.compare and the answer
\* work on the row it returned.
LoginResult(req) ==
    IF req.email = Missing \/ req.password = Missing
    THEN Json(400, FALSE, "enter email and password")
    ELSE IF ~isDatabaseConnected
    THEN JsonToken(200, TRUE, "logged in (test mode)", generateToken(MockUserId))
    ELSE IF ~storeUp
    THEN ServerError
    ELSE IF ByEmail(req.email) = {}
    THEN InvalidCredentials
    ELSE IF ~comparePassword(req.password, users[LoginRow(req.email)].password)
    THEN InvalidCredentials
    ELSE IF ~users[LoginRow(req.email)].is_email_verified /\ requireVerification
    THEN EmailNotVerified
    ELSE JsonToken(200, TRUE, "logged in", generateToken(LoginRow(req.email)))

\* A login that withdraws the pending reset token of the account it lets in
LoginClearsReset(s, email, password) ==
    /\ CanStart(s)
    /\ LET req == [IdleReq EXCEPT !.op = "login", !.email = email,
                                  !.password = password]
           resp == LoginResult(req)
       IN  /\ Answer(s, req, resp) /\ Keep(resp)
           /\ users' = IF resp.success /\ isDatabaseConnected
                        THEN [users EXCEPT ![LoginRow(email)] =
                                 [@ EXCEPT !.password_reset_token = NULL,
                                           !.password_reset_expires = NULL]]
                        ELSE users
    /\ UNCHANGED <<isDatabaseConnected, mailer, requireVerification, storeUp,
                   nextId, nextTok, now, ticks, consumed>>

Login(s, email, password) ==
    /\ CanStart(s)
    /\ LET req == [IdleReq EXCEPT !.op = "login", !.email = email,
                                  !.password = password]
           resp == LoginResult(req)
       IN  Answer(s, req, resp) /\ Keep(resp)
    /\ UNCHANGED <<isDatabaseConnected, mailer, requireVerification, storeUp, users,
                   nextId, nextTok, now, ticks, consumed>>

----------------------------------------------------------------------------
(* POST /change-password *)

\* A handler that does not tell a missing account from a wrong password
ChangeResultNoNotFound(req) ==
    IF authenticate(req.auth) # NoResponse
    THEN authenticate(req.auth)
    ELSE IF req.current = Missing \/ req.password = Missing
    THEN Json(400, FALSE, "current and new password are required")
    ELSE IF Len(req.password) < MinPassword
    THEN Json(400, FALSE, "new password too short")
    ELSE IF ~isDatabaseConnected
    THEN Json(400, FALSE, "password change is not available in test mode")
    ELSE IF ~storeUp
    THEN ServerError
    ELSE IF \/ req.userId \notin DOMAIN users
            \/ ~comparePassword(req.current, users[req.userId].password)
    THEN Json(401, FALSE, "wrong current password")
    ELSE NoResponse

ChangeResult(req) ==
    IF authenticate(req.auth) # NoResponse
    THEN authenticate(req.auth)
    ELSE IF req.current = Missing \/ req.password = Missing
    THEN Json(400, FALSE, "current and new password are required")
    ELSE IF Len(req.password) < MinPassword
    THEN Json(400, FALSE, "new password too short")
    ELSE IF ~isDatabaseConnected
    THEN Json(400, FALSE, "password change is not available in test mode")
    ELSE IF ~storeUp
    THEN ServerError
    ELSE IF req.userId \notin DOMAIN users
    THEN Json(404, FALSE, "user not found")
    ELSE IF ~comparePassword(req.current, users[req.userId].password)
    THEN Json(401, FALSE, "wrong current password")
    ELSE NoResponse

ChangePassword(s, header, currentPassword, newPassword) ==
    /\ CanStart(s)
    /\ LET req == [IdleReq EXCEPT !.op = "change", !.auth = header,
                                  !.userId = getUserIdFromToken(header),
                                  !.current = currentPassword,
                                  !.password = newPassword]
           resp == ChangeResult(req)
       IN  First(s, req, resp,
                 IF resp = NoResponse
                 THEN [id |-> req.userId, expires |-> NULL, email |-> Missing]
                 ELSE NoRow)
    /\ UNCHANGED <<isDatabaseConnected, mailer, requireVerification, storeUp, users,
                   nextId, nextTok, now, ticks, wallet, consumed>>

\* An UPDATE that also withdraws a pending reset token
ChangeWriteClearsReset(row, hashedPassword) ==
    [row EXCEPT !.password = hashedPassword,
                !.password_reset_token = NULL,
                !.password_reset_expires = NULL]

\* An UPDATE that stores the password without its bcrypt wrapping
ChangeWritePlain(row, hashedPassword) == [row EXCEPT !.password = hashedPassword[3]]

\* UPDATE users SET password = $1 WHERE id = $2
ChangeWrite(row, hashedPassword) == [row EXCEPT !.password = hashedPassword]

ChangeUpdate(s) ==
    /\ reqs[s].pc = "write" /\ reqs[s].op = "change"
    /\ IF ~storeUp
       THEN Finish(s, ServerError) /\ UNCHANGED users
       ELSE \E salt \in Salts :
            /\ users' = [users EXCEPT ![reqs[s].userId] =
                            ChangeWrite(@, hashPassword(reqs[s].password, salt))]
            /\ Finish(s, Json(200, TRUE, "password changed"))
    /\ UNCHANGED <<isDatabaseConnected, mailer, requireVerification, storeUp, nextId,
                   nextTok, now, ticks, wallet, consumed>>

----------------------------------------------------------------------------
(* GET /users/me (the routes /users/me/stats and /users/me/orders are        *)
(* registered behind the same authenticate middleware)                      *)

UsersMeResult(req) ==
    IF authenticate(req.auth) # NoResponse
    THEN authenticate(req.auth)
    ELSE IF ~isDatabaseConnected
    THEN Json(200, TRUE, "user (test mode)")
    ELSE IF ~storeUp
    THEN ServerError
    ELSE IF req.userId \notin DOMAIN users
    THEN Json(404, FALSE, "user not found")
    ELSE Json(200, TRUE, "user")

UsersMe(s, header) ==
    /\ CanStart(s)
    /\ LET req == [IdleReq EXCEPT !.op = "me", !.auth = header,
                                  !.userId = getUserIdFromToken(header)]
       IN  Answer(s, req, UsersMeResult(req))
    /\ UNCHANGED <<isDatabaseConnected, mailer, requireVerification, storeUp, users,
                   nextId, nextTok, now, ticks, wallet, consumed>>

----------------------------------------------------------------------------
(* The environment: the clock, counted from the first registration, and the *)
(* store going away and coming back                                         *)

Tick(d) ==
    /\ ticks < MaxTicks
    /\ DOMAIN users # {}
    /\ now' = now + d
    /\ ticks' = ticks + 1
    /\ out' = IdleReq
    /\ UNCHANGED <<isDatabaseConnected, mailer, requireVerification, storeUp, users,
                   nextId, nextTok, wallet, reqs, consumed>>

\* The client throws its session token away (the server keeps no session)
Forget ==
    /\ wallet # <<>>
    /\ \A s \in Slots : Free(s)
    /\ wallet' = <<>>
    /\ out' = IdleReq
    /\ UNCHANGED <<isDatabaseConnected, mailer, requireVerification, storeUp, users,
                   nextId, nextTok, now, ticks, reqs, consumed>>

StoreFlips ==
    /\ isDatabaseConnected
    /\ storeUp' = ~storeUp
    /\ out' = IdleReq
    /\ UNCHANGED <<isDatabaseConnected, mailer, requireVerification, users, nextId,
                   nextTok, now, ticks, wallet, reqs, consumed>>

----------------------------------------------------------------------------
(* The inputs a client can send *)

\* req.body of POST /register: well formed, or with one field missing or malformed
RegisterValid == [name : {Ann}, email : Emails, password : {Pw1}]

RegisterInputs ==
    RegisterValid
    \cup {[name |-> Missing, email |-> EmailA, password |-> Pw1],
          [name |-> Ann, email |-> Missing, password |-> Pw1],
          [name |-> Ann, email |-> EmailNoAt, password |-> Pw1],
          [name |-> Ann, email |-> EmailA, password |-> Missing],
          [name |-> Ann, email |-> EmailA, password |-> PwShort]}

\* Emails that are not of the shape local@domain.tld
EmailNoDot == <<"a", "@", "x", "c">>
EmailNoLocal == <<"@", "x", ".", "c">>
EmailNoTld == <<"a", "@", "x", ".">>
EmailNoDomain == <<"a", "@", ".", "c">>
EmailTwoAts == <<"a", "@", "@", "x", ".", "c">>
EmailSpace == <<"a", " ", "@", "x", ".", "c">>

RegisterBadEmails ==
    [name : {Ann},
     email : {EmailNoDot, EmailNoLocal, EmailNoTld, EmailNoDomain, EmailTwoAts,
              EmailSpace},
     password : {Pw1}]

\* Single-use tokens: one that was mailed, one that was made up, or none
MailedTokens == 1..(nextTok - 1)
TokenInputs == MailedTokens \cup {GuessToken, NoToken}

\* The Authorization header: none, a token signed with another key, a token held
HeldTokens == {<<wallet[k]>> : k \in 1..Len(wallet)}
AuthInputs == {<<>>, <<ForgedToken>>} \cup HeldTokens

\* req.body of POST /forgot-password
EmailInputs == Emails \cup {Missing}

\* req.body of POST /reset-password
ResetValid == [token : MailedTokens \cup {GuessToken}, password : Passwords]

ResetInputs ==
    ResetValid
    \cup [token : MailedTokens, password : {PwShort, Missing}]
    \cup {[token |-> NoToken, password |-> Pw1]}

\* req.body of POST /login
LoginValid == [email : Emails, password : Passwords]

LoginInputs ==
    LoginValid
    \cup {[email |-> Missing, password |-> Pw1],
          [email |-> EmailA, password |-> Missing]}

\* The Authorization header and req.body of POST /change-password
ChangeValid == [auth : HeldTokens, current : Passwords, password : Passwords]

ChangeInputs ==
    ChangeValid
    \cup [auth : HeldTokens, current : {Pw1}, password : {PwShort, Missing}]
    \cup [auth : HeldTokens, current : {Missing}, password : {Pw1}]
    \cup [auth : {<<>>, <<ForgedToken>>}, current : {Pw1}, password : {Pw2}]

----------------------------------------------------------------------------
(* The system *)

\* initializeDatabase: connected only if DATABASE_URL is set and pool.connect
\* succeeds; every other outcome leaves the server in mock mode
initializeDatabase(databaseUrl, connects) == databaseUrl /\ connects

InitStore ==
    /\ users = [id \in {} |-> 0]
    /\ nextId = 1
    /\ nextTok = 1
    /\ now = 0
    /\ ticks = 0
    /\ wallet = <<>>
    /\ reqs = [s \in Slots |-> IdleReq]
    /\ out = IdleReq
    /\ consumed = [t \in 1..MaxTokens |-> 0]

\* Database mode: the connection was made and the store answers
Init ==
    /\ isDatabaseConnected = initializeDatabase(TRUE, TRUE)
    /\ requireVerification \in BOOLEAN
    /\ storeUp = TRUE
    /\ mailer = "mock"
    /\ InitStore

\* Database mode with REQUIRE_EMAIL_VERIFICATION unset
InitPlain ==
    /\ isDatabaseConnected = initializeDatabase(TRUE, TRUE)
    /\ requireVerification = FALSE
    /\ storeUp = TRUE
    /\ mailer = "mock"
    /\ InitStore

\* Database mode with REQUIRE_EMAIL_VERIFICATION=true
InitStrict ==
    /\ isDatabaseConnected = initializeDatabase(TRUE, TRUE)
    /\ requireVerification = TRUE
    /\ storeUp = TRUE
    /\ mailer = "mock"
    /\ InitStore

\* Any deployment: mock mode when the connection was not made
InitAny ==
    /\ \E databaseUrl \in BOOLEAN : \E connects \in BOOLEAN :
           isDatabaseConnected = initializeDatabase(databaseUrl, connects)
    /\ requireVerification = FALSE
    /\ storeUp = TRUE
    /\ mailer = "mock"
    /\ InitStore

\* Database mode with a mail service in the place of the mock sendEmail
InitMail ==
    /\ isDatabaseConnected = initializeDatabase(TRUE, TRUE)
    /\ requireVerification = FALSE
    /\ storeUp = TRUE
    /\ mailer = "service"
    /\ InitStore

RegisterOps(s, bodies) ==
    \/ \E body \in bodies : Register(s, body)
    \/ RegisterInsert(s)

VerifyOps(s) ==
    \/ \E token \in TokenInputs : VerifyEmail(s, token)
    \/ VerifyUpdate(s)
    \/ \E header \in AuthInputs : ResendVerification(s, header)
    \/ ResendUpdate(s)

ResetOps(s, bodies) ==
    \/ \E email \in EmailInputs : ForgotPassword(s, email)
    \/ ForgotUpdate(s)
    \/ \E body \in bodies : ResetPassword(s, body.token, body.password)
    \/ ResetUpdate(s)

LoginOps(s, bodies) ==
    \E body \in bodies : Login(s, body.email, body.password)

ChangeOps(s) ==
    \/ \E r \in ChangeInputs : ChangePassword(s, r.auth, r.current, r.password)
    \/ ChangeUpdate(s)

ChangeValidOps(s) ==
    \/ \E r \in ChangeValid : ChangePassword(s, r.auth, r.current, r.password)
    \/ ChangeUpdate(s)

Clock == \E d \in TickSteps : Tick(d)

\* All the operations, handlers running concurrently
Next ==
    \/ \E s \in Slots :
           \/ RegisterOps(s, RegisterInputs)
           \/ VerifyOps(s)
           \/ ResetOps(s, ResetInputs)
           \/ LoginOps(s, LoginInputs)
           \/ ChangeOps(s)
    \/ Clock

Spec == Init /\ [][Next]_vars

\* All the operations, one request at a time
NextSeq ==
    \/ RegisterOps(1, RegisterInputs)
    \/ VerifyOps(1)
    \/ ResetOps(1, ResetInputs)
    \/ LoginOps(1, LoginInputs)
    \/ ChangeOps(1)
    \/ Clock

SpecSeq == InitPlain /\ [][NextSeq]_vars

\* The same with REQUIRE_EMAIL_VERIFICATION set, and with it set or unset
SpecStrict == InitStrict /\ [][NextSeq]_vars

SpecPolicy == Init /\ [][NextSeq]_vars

\* The verification axis: concurrent register, verify-email, resend-verification
NextVerify ==
    \/ \E s \in Slots : RegisterOps(s, RegisterValid) \/ VerifyOps(s)
    \/ Clock

SpecVerify == InitPlain /\ [][NextVerify]_vars

\* The reset axis: concurrent register, forgot-password, reset-password, login
NextReset ==
    \/ \E s \in Slots :
           \/ RegisterOps(s, RegisterValid)
           \/ ResetOps(s, ResetValid)
           \/ LoginOps(s, LoginValid)
    \/ Clock

SpecReset == Init /\ [][NextReset]_vars

\* The login axis, REQUIRE_EMAIL_VERIFICATION set or unset, one request at a
\* time: register, verify-email, forgot-password, reset-password, login
NextLogin ==
    \/ RegisterOps(1, RegisterValid)
    \/ \E token \in MailedTokens : VerifyEmail(1, token)
    \/ VerifyUpdate(1)
    \/ ResetOps(1, ResetValid)
    \/ LoginOps(1, LoginValid)
    \/ Clock

SpecLogin == Init /\ [][NextLogin]_vars

\* The credential axis: concurrent register, forgot-password, reset-password,
\* change-password
NextCreds ==
    \/ \E s \in Slots :
           \/ RegisterOps(s, RegisterValid)
           \/ ResetOps(s, ResetValid)
           \/ ChangeValidOps(s)
    \/ Clock

SpecCreds == InitPlain /\ [][NextCreds]_vars

\* The operations that send mail, with a mail service that may fail, one request
\* at a time
NextMail ==
    \/ RegisterOps(1, RegisterValid)
    \/ VerifyOps(1)
    \/ ResetOps(1, ResetValid)
    \/ LoginOps(1, LoginValid)
    \/ Clock

SpecMail == InitMail /\ [][NextMail]_vars

\* Input validation, any deployment, one request at a time: register and
\* reset-password with well formed and malformed bodies, and a store that may
\* stop answering
NextInput ==
    \/ RegisterOps(1, RegisterInputs \cup RegisterBadEmails)
    \/ ResetOps(1, ResetInputs)
    \/ Clock
    \/ StoreFlips

SpecInput == InitAny /\ [][NextInput]_vars

\* The life of a session token, one request at a time: tokens minted by
\* register and login, password changes by reset-password and change-password,
\* a guarded route called with every kind of token, and a clock that reaches
\* the last hour before the 7 days are over, the boundary and beyond
SessionHeaders == AuthInputs \cup {<<MalformedToken>>}
SessionTicks == {ResetTTL, JwtTTL - ResetTTL}

NextSession ==
    \/ RegisterOps(1, RegisterValid)
    \/ LoginOps(1, LoginValid)
    \/ ResetOps(1, ResetValid)
    \/ ChangeValidOps(1)
    \/ \E header \in SessionHeaders : UsersMe(1, header)
    \/ \E d \in SessionTicks : Tick(d)
    \/ Forget

SpecSession == InitPlain /\ [][NextSession]_vars

\* The credential hasher, one request at a time: register hashes a password
\* and login compares one with the stored hash, for short and long passwords
HashInputs == Passwords \cup {PwLongA, PwLongB}

NextHasher ==
    \/ RegisterOps(1, [name : {Ann}, email : Emails, password : HashInputs])
    \/ LoginOps(1, [email : Emails, password : HashInputs])
    \/ Clock

SpecHasher == InitPlain /\ [][NextHasher]_vars

\* The Authorization header in full, one request at a time: a token with the
\* text 'Bearer ' before it, without it and with it twice, for the tokens the
\* clients hold, a forged one and one that names the user id 0
BearerTokens == {wallet[k] : k \in 1..Len(wallet)} \cup {ForgedToken, ZeroToken}

BearerHeaders ==
    {<<>>, <<BearerPrefix>>}
        \cup {<<BearerPrefix, t>> : t \in BearerTokens}
        \cup {<<t>> : t \in BearerTokens}
        \cup {<<BearerPrefix, BearerPrefix, t>> : t \in BearerTokens}

NextBearer ==
    \/ RegisterOps(1, RegisterValid)
    \/ \E header \in BearerHeaders : ResendVerification(1, header)
    \/ ResendUpdate(1)
    \/ \E header \in BearerHeaders : UsersMe(1, header)
    \/ Tick(ResetTTL)
    \/ Tick(JwtTTL)

SpecBearer == InitPlain /\ [][NextBearer]_vars

\* The guarded writes, one request at a time: resend-verification and
\* change-password with the tokens the clients hold and with a token that may
\* name no account, on a table of up to two accounts
OwnerHeaders == {<<>>, <<MockSessionToken>>} \cup HeldTokens

NextOwner ==
    \/ RegisterOps(1, RegisterValid)
    \/ \E token \in MailedTokens : VerifyEmail(1, token)
    \/ VerifyUpdate(1)
    \/ \E header \in OwnerHeaders : ResendVerification(1, header)
    \/ ResendUpdate(1)
    \/ \E header \in OwnerHeaders : \E c \in Passwords : \E p \in Passwords :
           ChangePassword(1, header, c, p)
    \/ ChangeUpdate(1)
    \/ Tick(ResetTTL)
    \/ Forget

SpecOwner == InitPlain /\ [][NextOwner]_vars

\* The auth gate, one request at a time: the guarded routes with every kind of
\* Authorization header, session tokens that outlive their 7 days, and a store
\* that may stop answering
NextGate ==
    \/ RegisterOps(1, RegisterValid)
    \/ LoginOps(1, LoginValid)
    \/ \E header \in AuthInputs : ResendVerification(1, header)
    \/ ResendUpdate(1)
    \/ ChangeOps(1)
    \/ \E header \in AuthInputs : UsersMe(1, header)
    \/ Clock
    \/ Tick(JwtTTL)
    \/ StoreFlips

SpecGate == InitPlain /\ [][NextGate]_vars

\* Any deployment, one request at a time, with a store that may stop answering
NextAny ==
    \/ RegisterOps(1, RegisterValid)
    \/ VerifyOps(1)
    \/ ResetOps(1, ResetValid)
    \/ LoginOps(1, LoginValid)
    \/ ChangeOps(1)
    \/ Clock
    \/ StoreFlips

SpecAny == InitAny /\ [][NextAny]_vars

----------------------------------------------------------------------------
(* Properties *)

Answered(op) == out.pc = "done" /\ out.op = op

\* C1: in database mode verify-email is single-use: a verify-email request for
\* token T that arrives after a verify-email request for T was answered with
\* success is answered 400 "invalid or outdated verification token".
C1_VerifyIsSingleUse ==
    (Answered("verify") /\ out.late) => out.resp = InvalidVerifyToken

C1_Witness ==
    Answered("verify") /\ out.late /\ out.resp = InvalidVerifyToken

\* C2: of two concurrent register requests for the same unused email one succeeds
\* and the other is answered DuplicateEmail, also when both passed the existence
\* check: a well-formed register request that is refused because an account with
\* its email exists is answered 400 "user with this email already exists".
C2_RefusedRegisterIsDuplicateEmail ==
    (Answered("register") /\ ByEmail(out.email) # {} /\ ~out.resp.success)
        => out.resp = DuplicateEmail

\* C3: forgot-password answers an email that has an account exactly as it
\* answers an email that has none (same status, same body).
C3_ForgotAnswersAlike ==
    (Answered("forgot") /\ ByEmail(out.email) # {})
        => \A e \in Emails :
               ByEmail(e) = {}
                   => out.resp = ForgotResult([IdleReq EXCEPT !.op = "forgot",
                                                              !.email = e])

\* A step in which a request for single-use token T arrives: the handler answers
\* at once, or goes on to its update.
AnsweredAtOnce(op, T) ==
    /\ reqs' = reqs
    /\ out'.pc = "done" /\ out'.op = op /\ out'.token = T

WentOn(op, T) ==
    \E s \in Slots : /\ reqs[s].pc = "idle"
                     /\ reqs'[s].pc = "write"
                     /\ reqs'[s].op = op /\ reqs'[s].token = T

StoredVerifyExpired(T) ==
    \E id \in DOMAIN users : /\ users[id].email_verification_token = T
                             /\ users[id].email_verification_expires < now

StoredResetExpired(T) ==
    \E id \in DOMAIN users : /\ users[id].password_reset_token = T
                             /\ users[id].password_reset_expires < now

\* C4 as stated: a request that presents a stored verification or reset token
\* whose expiry is in the past is answered TokenExpired and changes no row.
C4_ExpiredTokenAlwaysTokenExpired ==
    [][\A T \in 1..MaxTokens :
          /\ StoredVerifyExpired(T)
                => /\ ~WentOn("verify", T)
                   /\ AnsweredAtOnce("verify", T)
                         => (out'.resp = TokenExpired /\ users' = users)
          /\ StoredResetExpired(T)
                => /\ ~WentOn("reset", T)
                   /\ AnsweredAtOnce("reset", T)
                         => (out'.resp = TokenExpired /\ users' = users)]_vars

\* C4 as amended: a request that presents an expired verification token of an
\* unverified account, or an expired reset token, never succeeds and changes no
\* row (the expired pair stays); it is answered TokenExpired, except that
\* reset-password with a missing or too short password is answered with the
\* validation error.
C4_ExpiredTokenNeverSucceeds ==
    [][\A T \in 1..MaxTokens :
          /\ (StoredVerifyExpired(T) /\ VerifyRows(T) # {})
                => /\ ~WentOn("verify", T)
                   /\ AnsweredAtOnce("verify", T)
                         => (out'.resp = TokenExpired /\ users' = users)
          /\ StoredResetExpired(T)
                => /\ ~WentOn("reset", T)
                   /\ AnsweredAtOnce("reset", T)
                         => /\ users' = users
                            /\ ~out'.resp.success
                            /\ out'.resp.status = 400
                            /\ Len(out'.password) >= MinPassword
                                  => out'.resp = TokenExpired]_vars

C4_Witness ==
    /\ Answered("reset") /\ out.resp = TokenExpired
    /\ \E id \in DOMAIN users : /\ users[id].password_reset_token = out.token
                                /\ users[id].password_reset_expires < now

\* C5: the token-consuming writes are atomic.  In every step and for every
\* account: the verified flag changes, or the verification token is cleared,
\* only together (flag true, pair null); the reset token is cleared only by a
\* reset-password success that also stores the hash of its new password; and a
\* verify-email / reset-password success leaves flag and pair, or password and
\* pair, changed together.
C5_ConsumingWritesAreAtomic ==
    [][\A id \in DOMAIN users :
          LET u == users[id]
              v == users'[id]
          IN  /\ (v.is_email_verified # u.is_email_verified
                    \/ (u.email_verification_token # NULL
                          /\ v.email_verification_token = NULL)
                    \/ (out'.pc = "done" /\ out'.op = "verify"
                          /\ out'.resp.success /\ out'.row.id = id))
                    => /\ v.is_email_verified
                       /\ v.email_verification_token = NULL
                       /\ v.email_verification_expires = NULL
              /\ ((u.password_reset_token # NULL /\ v.password_reset_token = NULL)
                    \/ (out'.pc = "done" /\ out'.op = "reset"
                          /\ out'.resp.success /\ out'.row.id = id))
                    => /\ out'.pc = "done" /\ out'.op = "reset"
                       /\ out'.resp.success /\ out'.row.id = id
                       /\ v.password[3] = out'.password
                       /\ v.password_reset_token = NULL
                       /\ v.password_reset_expires = NULL]_vars

C5_Witness ==
    /\ Answered("reset") /\ out.resp.success
    /\ \E id \in DOMAIN users : users[id].is_email_verified

\* C6: of the verify-email requests that present the same token at most one is
\* answered with success.
C6_VerifyTokenConsumedOnce ==
    (Answered("verify") /\ out.resp.success) => consumed[out.token] <= 1

\* C7: of the reset-password requests that present the same token at most one
\* is answered with success (and the stored hash is the one it wrote).
C7_ResetTokenConsumedOnce ==
    (Answered("reset") /\ out.resp.success)
        => /\ consumed[out.token] <= 1
           /\ users[out.row.id].password[3] = out.password

\* The answer login gives to an email and a password
LoginAnswer(email, password) ==
    LoginResult([IdleReq EXCEPT !.op = "login", !.email = email,
                                !.password = password])

\* reset-password answers success to a request for account id with new password P
ResetSucceeds(id, P) ==
    /\ out'.pc = "done" /\ out'.op = "reset" /\ out'.resp.success
    /\ out'.row.id = id /\ out'.password = P

C9_LoginTokenOnlyOnMatch ==
    Answered("login") =>
        /\ out.resp.access_token # <<>>
              => \E id \in DOMAIN users :
                     /\ users[id].email = out.email
                     /\ users[id].password[3] = out.password
                     /\ out.resp.access_token[1].userId = id
        /\ (/\ out.email # Missing /\ out.password # Missing
            /\ \A id \in DOMAIN users :
                   users[id].email = out.email
                      => users[id].password[3] # out.password)
              => out.resp = Json(401, FALSE, "wrong email or password")

C9_Witness ==
    /\ Answered("login") /\ out.resp.status = 401
    /\ \E id \in DOMAIN users : /\ users[id].email = out.email
                                /\ users[id].is_email_verified
                                /\ users[id].password[3] # out.password

\* C10: while the store is unreachable (the connection was not made, or the
\* queries fail) no request is answered with success and none is handed a
\* session token.
C10_NoSuccessWithoutStore ==
    (out.pc = "done" /\ (~isDatabaseConnected \/ ~storeUp))
        => (~out.resp.success /\ out.resp.access_token = <<>>)

\* The routes behind authenticate, and the headers it refuses
Guarded == {"resend", "change", "me"}

BadAuth(header) == header = <<>> \/ verifyToken(header[1]) = <<>>

\* C11: the auth gate fails closed.  A request to a guarded route without an
\* Authorization header, or with a token that verifyToken refuses (forged or
\* expired), is answered 401 Unauthorized at once, also while the store does not
\* answer (no query is made for it); it changes no row and its handler never
\* reaches an update.
C11_AuthGateFailsClosed ==
    [][/\ (/\ out'.pc = "done" /\ out'.op \in Guarded
           /\ reqs' = reqs /\ BadAuth(out'.auth))
             => (out'.resp = Unauthorized /\ users' = users)
       /\ \A s \in Slots :
             (/\ reqs[s].pc = "idle" /\ reqs'[s].pc = "write"
              /\ reqs'[s].op \in Guarded)
                => ~BadAuth(reqs'[s].auth)]_vars

\* An expired session token is refused while the store is down
C11_Witness ==
    /\ Answered("change") /\ out.resp = Unauthorized
    /\ out.auth # <<>> /\ out.auth[1].sig = "secret" /\ out.auth[1].exp <= now
    /\ ~storeUp

\* C12: for every account the verification token and its expiry are both null
\* or both set, whatever the interleaving of register, verify-email and
\* resend-verification.
C12_VerificationPairTogether ==
    \A id \in DOMAIN users :
        (users[id].email_verification_token = NULL)
            <=> (users[id].email_verification_expires = NULL)

\* One account was verified (pair null), another was sent a second token
C12_Witness ==
    /\ \E id \in DOMAIN users : /\ users[id].is_email_verified
                                /\ users[id].email_verification_token = NULL
                                /\ users[id].email_verification_expires = NULL
    /\ \E id \in DOMAIN users : /\ users[id].email_verification_token > MaxUsers
                                /\ users[id].email_verification_expires # NULL

\* C13: for every account the reset token and its expiry are both null or both
\* set, whatever the interleaving of register, forgot-password, reset-password
\* and change-password.
C13_ResetPairTogether ==
    \A id \in DOMAIN users :
        (users[id].password_reset_token = NULL)
            <=> (users[id].password_reset_expires = NULL)

\* A reset token was consumed and a later one is stored
C13_Witness ==
    /\ \E t \in 1..MaxTokens : consumed[t] > 0
    /\ \E id \in DOMAIN users : /\ users[id].password_reset_token # NULL
                                /\ users[id].password_reset_expires # NULL

\* C14: is_email_verified is monotone: no step of any operation takes the flag
\* of an account from true back to false.
C14_VerifiedStaysVerified ==
    [][\A id \in DOMAIN users :
          users[id].is_email_verified => users'[id].is_email_verified]_vars

\* A verified account has changed its password
C14_Witness ==
    /\ Answered("change") /\ out.resp.success
    /\ out.userId \in DOMAIN users
    /\ users[out.userId].is_email_verified

\* C15: a verified account has no verification token: is_email_verified implies
\* that the verification token and its expiry are null.
C15_VerifiedHasNoToken ==
    \A id \in DOMAIN users :
        users[id].is_email_verified
            => /\ users[id].email_verification_token = NULL
               /\ users[id].email_verification_expires = NULL

\* C16: there is at most one account per email, whatever the interleaving of
\* register requests.
C16_OneAccountPerEmail ==
    \A i \in DOMAIN users : \A k \in DOMAIN users :
        users[i].email = users[k].email => i = k

\* Of two register requests that both found the email unused, the second has
\* reached its INSERT after the first
C16_Witness ==
    /\ Answered("register") /\ ~out.resp.success
    /\ out.resp # DuplicateEmail
    /\ ByEmail(out.email) # {}

\* C17: a successful register in database mode creates an account (a new id)
\* with the email and the hash of the password of the request, not verified,
\* with a verification token whose expiry is the registration time plus 24 hours
\* and a null reset pair, and answers with a session token that verifies to the
\* id of the new account.
C17_RegisterCreatesUnverifiedAccount ==
    [][(/\ out'.pc = "done" /\ out'.op = "register"
        /\ out'.resp.success /\ isDatabaseConnected)
          => /\ nextId \notin DOMAIN users
             /\ DOMAIN users' = DOMAIN users \cup {nextId}
             /\ \A id \in DOMAIN users : users'[id] = users[id]
             /\ users'[nextId].email = out'.email
             /\ comparePassword(out'.password, users'[nextId].password)
             /\ ~users'[nextId].is_email_verified
             /\ users'[nextId].email_verification_token # NULL
             /\ users'[nextId].email_verification_expires = now + VerifyTTL
             /\ users'[nextId].password_reset_token = NULL
             /\ users'[nextId].password_reset_expires = NULL
             /\ out'.resp.access_token # <<>>
             /\ verifyToken(out'.resp.access_token[1]) # <<>>
             /\ getUserIdFromToken(out'.resp.access_token) = nextId]_vars

\* A second account was registered, later than the first
C17_Witness ==
    /\ Answered("register") /\ out.resp.success
    /\ isDatabaseConnected
    /\ now > 0
    /\ nextId > 2

VerifyAnswer(token) ==
    VerifyResult([IdleReq EXCEPT !.op = "verify", !.token = token])

AlreadyVerified == Json(400, FALSE, "email already verified")

\* The single-use tokens stored in the table
StoredTokens ==
    {users[k].email_verification_token : k \in DOMAIN users}
        \cup {users[k].password_reset_token : k \in DOMAIN users}

\* C19: resend-verification for an authenticated account is answered
\* AlreadyVerified and changes nothing when the account is verified; otherwise
\* it overwrites the verification pair of that account alone with a fresh token
\* (the one it mails) and the expiry now + 24 hours and answers success, and from
\* then on verify-email with the token the account had before is answered 400
\* "invalid or outdated".
C19_ResendOverwritesPair ==
    [][\A id \in 1..MaxUsers : \A T \in 1..MaxTokens :
          (/\ out'.pc = "done" /\ out'.op = "resend"
           /\ out'.userId = id /\ id \in DOMAIN users
           /\ users[id].email_verification_token \in {T, NULL})
             => IF users[id].is_email_verified
                THEN out'.resp = AlreadyVerified /\ users' = users
                ELSE /\ out'.resp.success
                     /\ users'[id].email_verification_token \notin StoredTokens
                     /\ users'[id].email_verification_token # NULL
                     /\ users'[id].email_verification_token = out'.mailed
                     /\ users'[id].email_verification_expires = now + VerifyTTL
                     /\ users'[id].password = users[id].password
                     /\ \A k \in DOMAIN users : k # id => users'[k] = users[k]
                     /\ users[id].email_verification_token = T
                           => VerifyAnswer(T)' = InvalidVerifyToken]_vars

\* The answer reset-password gives to a token and a new password
ResetAnswer(token, password) ==
    ResetResult([IdleReq EXCEPT !.op = "reset", !.token = token,
                                !.password = password])

\* C20: forgot-password for the email of an existing account sets the reset pair
\* of that account, and nothing else, to a fresh token (the one it mails) with
\* the expiry now + 1 hour, and from then on reset-password with the token the
\* account had before is answered 400 "invalid or outdated"; for an email that
\* has no account it changes no row and mails nothing.
C20_ForgotReplacesResetPair ==
    [][\A T \in 1..MaxTokens :
          (out'.pc = "done" /\ out'.op = "forgot" /\ out'.email # Missing)
             => IF ByEmail(out'.email) # {}
                THEN LET id == out'.row.id
                     IN  /\ reqs' # reqs
                         /\ id \in ByEmail(out'.email)
                         /\ users'[id].password_reset_token \notin StoredTokens
                         /\ users'[id].password_reset_token # NULL
                         /\ users'[id].password_reset_token = out'.mailed
                         /\ users'[id].password_reset_expires = now + ResetTTL
                         /\ users'[id] =
                               [users[id] EXCEPT
                                  !.password_reset_token = out'.mailed,
                                  !.password_reset_expires = now + ResetTTL]
                         /\ \A k \in DOMAIN users : k # id => users'[k] = users[k]
                         /\ users[id].password_reset_token = T
                               => \A P \in Passwords :
                                      ResetAnswer(T, P)' = InvalidResetToken
                ELSE /\ users' = users
                     /\ out'.mailed = NoToken]_vars

\* The only account was mailed a second reset token
C20_Witness ==
    /\ Answered("forgot") /\ out.resp.success
    /\ DOMAIN users = {1}
    /\ out.mailed > 2
    /\ users[1].password_reset_token = out.mailed

\* C21: verify-email matches only unverified accounts whose verification token
\* equals the one presented: a token that matches no such account is answered
\* 400 "invalid or outdated" and changes no account; a matching token that has
\* not expired is answered success, sets is_email_verified and clears the
\* verification pair of that account and changes nothing else.
C21_VerifyMatchesUnverifiedOnly ==
    [][(/\ out'.pc = "done" /\ out'.op = "verify" /\ out'.token # NoToken)
          => IF VerifyRows(out'.token) = {}
             THEN out'.resp = InvalidVerifyToken /\ users' = users
             ELSE IF ~isExpired(VerifyRow(out'.token).expires)
             THEN /\ out'.resp.success
                  /\ users' = [users EXCEPT ![VerifyRow(out'.token).id] =
                                   [@ EXCEPT !.is_email_verified = TRUE,
                                             !.email_verification_token = NULL,
                                             !.email_verification_expires = NULL]]
             ELSE TRUE]_vars

\* C22: reset-password with a missing token, a missing password or a password
\* shorter than 6 characters is answered with the validation error (400) at
\* once, also while the store does not answer (no lookup is made) and also when
\* the token is a stored unexpired reset token; it changes no account and the
\* handler never reaches its update.
C22_ResetValidatesFirst ==
    [][/\ (/\ out'.pc = "done" /\ out'.op = "reset"
           /\ \/ out'.token = NoToken
              \/ out'.password = Missing
              \/ Len(out'.password) < MinPassword)
             => /\ reqs' = reqs
                /\ users' = users
                /\ out'.resp =
                      IF out'.token = NoToken \/ out'.password = Missing
                      THEN Json(400, FALSE, "token and new password are required")
                      ELSE Json(400, FALSE, "password too short")
       /\ \A s \in Slots :
             (/\ reqs[s].pc = "idle" /\ reqs'[s].pc = "write"
              /\ reqs'[s].op = "reset")
                => /\ reqs'[s].token # NoToken
                   /\ Len(reqs'[s].password) >= MinPassword]_vars

\* A stored unexpired reset token was sent with a short password
C22_Witness ==
    /\ Answered("reset") /\ out.password = PwShort
    /\ out.resp = Json(400, FALSE, "password too short")
    /\ isDatabaseConnected
    /\ \E id \in DOMAIN users : /\ users[id].password_reset_token = out.token
                                /\ users[id].password_reset_expires > now

\* local@domain.tld: one "@", no space, a local part, and a "." in the domain
\* with something before and after it
ShapeLocalDomainTld(email) ==
    LET ats == {k \in 1..Len(email) : email[k] = "@"}
    IN  /\ Cardinality(ats) = 1
        /\ \A k \in 1..Len(email) : email[k] # " "
        /\ \E i \in ats :
              /\ i > 1
              /\ \E j \in (i + 2)..(Len(email) - 1) : email[j] = "."

MalformedRegister(req) ==
    \/ req.name = Missing \/ req.email = Missing \/ req.password = Missing
    \/ ~ShapeLocalDomainTld(req.email)
    \/ Len(req.password) < MinPassword

\* C23: register with a missing name, email or password, an email that is not
\* of the shape local@domain.tld or a password shorter than 6 characters is
\* answered with a validation error (400) at once, not with DuplicateEmail even
\* when the email has an account; it creates no account and hands out no
\* session token, and the handler never reaches its INSERT.
C23_RegisterValidatesFirst ==
    [][/\ (out'.pc = "done" /\ out'.op = "register" /\ MalformedRegister(out'))
             => /\ reqs' = reqs
                /\ users' = users
                /\ wallet' = wallet
                /\ out'.resp.status = 400 /\ ~out'.resp.success
                /\ out'.resp.access_token = <<>>
                /\ out'.resp # DuplicateEmail
       /\ \A s \in Slots :
             (/\ reqs[s].pc = "idle" /\ reqs'[s].pc = "write"
              /\ reqs'[s].op = "register")
                => ~MalformedRegister(reqs'[s])]_vars

\* A short password was sent with the email of an existing account
C23_Witness ==
    /\ Answered("register") /\ out.password = PwShort
    /\ out.resp = Json(400, FALSE, "password too short")
    /\ isDatabaseConnected
    /\ ByEmail(out.email) # {}

\* The accounts whose email and password are the ones the answered request gave
Matching ==
    {id \in DOMAIN users : /\ users[id].email = out.email
                           /\ users[id].password[3] = out.password}

\* C24: login answers EmailNotVerified (403) exactly when verification is
\* required, an account with the email exists, the password matches and the
\* account is not verified; a wrong password or an unknown email is answered
\* InvalidCredentials whatever the policy and the flag; and with the policy off
\* an unverified account with correct credentials is handed a session token of
\* the account.
C24_NotVerifiedOnlyAfterMatch ==
    Answered("login") =>
        /\ out.resp = EmailNotVerified
              <=> /\ requireVerification
                  /\ \E id \in Matching : ~users[id].is_email_verified
        /\ Matching = {} => out.resp = InvalidCredentials
        /\ (~requireVerification /\ Matching # {})
              => /\ out.resp.status = 200 /\ out.resp.success
                 /\ out.resp.access_token # <<>>
                 /\ out.resp.access_token[1].userId \in Matching

\* An unverified account logged in with its password while verification is
\* required
C24_Witness ==
    /\ Answered("login") /\ out.resp = EmailNotVerified
    /\ requireVerification
    /\ \E id \in Matching : ~users[id].is_email_verified

\* C25: change-password overwrites the stored hash of the authenticated account
\* only when the current password it was given matches the hash that is stored
\* and the new password has at least 6 characters, and then stores the new
\* password; answered "wrong current password" it leaves every account as it
\* was.
C25_ChangeOnlyWithCurrentPassword ==
    [][(out'.pc = "done" /\ out'.op = "change")
          => /\ out'.resp.success
                  => /\ out'.userId \in DOMAIN users
                     /\ comparePassword(out'.current, users[out'.userId].password)
                     /\ Len(out'.password) >= MinPassword
                     /\ users'[out'.userId].password[3] = out'.password
             /\ ~out'.resp.success => users' = users
             /\ out'.resp = Json(401, FALSE, "wrong current password")
                  => /\ out'.userId \in DOMAIN users
                     /\ ~comparePassword(out'.current,
                                         users[out'.userId].password)]_vars

\* The errors jwt.verify throws
JwtErrors == {"jwt malformed", "invalid signature", "jwt expired"}

\* C26: verifyToken never hands an error of jwt.verify to its caller: for a
\* malformed token, a token with a wrong signature and an expired token alike
\* it returns null, and what it returns is always null or the payload.  The
\* caller cannot tell the three apart: getUserIdFromToken yields no user id and
\* the guarded route answers the same 401, changing nothing.
C26_VerifyTokenReturnsNull ==
    [][/\ \A header \in SessionHeaders \ {<<>>} :
             /\ verifyToken(header[1]) \in {<<>>, <<header[1]>>}
             /\ jwtVerify(header[1]).error \in JwtErrors
                   => /\ verifyToken(header[1]) = <<>>
                      /\ getUserIdFromToken(header) = 0
       /\ (/\ out'.pc = "done" /\ out'.op = "me" /\ out'.auth # <<>>
           /\ jwtVerify(out'.auth[1]).error \in JwtErrors)
             => /\ out'.userId = 0
                /\ out'.resp = Unauthorized
                /\ users' = users]_vars

\* A guarded route was called with a session token after its 7 days
C26_Witness ==
    /\ Answered("me") /\ out.resp = Unauthorized
    /\ out.auth \in HeldTokens
    /\ jwtVerify(out.auth[1]).error = "jwt expired"

\* The same with a token that is not a JWT
C26_WitnessMalformed ==
    /\ Answered("me") /\ out.resp = Unauthorized
    /\ out.auth # <<>> /\ jwtVerify(out.auth[1]).error = "jwt malformed"

\* The same with a token signed with another key
C26_WitnessSignature ==
    /\ Answered("me") /\ out.resp = Unauthorized
    /\ out.auth # <<>> /\ jwtVerify(out.auth[1]).error = "invalid signature"

\* The session token a register or login request was just answered with
Minted ==
    IF out.pc = "done" /\ out.op \in {"register", "login"} THEN out.resp.access_token
    ELSE <<>>

\* C27: session-token round trip.  The token register or login hands out for an
\* account is verified at once and yields the id of that account; a token a
\* client holds yields the id it was minted for at every time from its issuance
\* up to issuance + 7 days, and null at every time after that.
C27_TokenRoundTrip ==
    /\ Minted # <<>>
          => /\ verifyToken(Minted[1]) # <<>>
             /\ verifyToken(Minted[1])[1].userId \in ByEmail(out.email)
             /\ getUserIdFromToken(Minted) \in ByEmail(out.email)
    /\ \A k \in 1..Len(wallet) :
          /\ (wallet[k].iat <= now /\ now < wallet[k].iat + JwtTTL)
                => /\ verifyToken(wallet[k]) # <<>>
                   /\ verifyToken(wallet[k])[1].userId = wallet[k].userId
                   /\ wallet[k].userId \in DOMAIN users
          /\ now > wallet[k].iat + JwtTTL => verifyToken(wallet[k]) = <<>>

\* A token minted by login is held in the last hour of its 7 days
C27_Witness ==
    /\ \E k \in 1..Len(wallet) : /\ wallet[k].iat = ResetTTL
                                  /\ now = wallet[k].iat + JwtTTL - ResetTTL
                                  /\ verifyToken(wallet[k]) # <<>>

\* A held token after its 7 days
C27_WitnessAfter ==
    \E k \in 1..Len(wallet) : /\ now > wallet[k].iat + JwtTTL
                              /\ verifyToken(wallet[k]) = <<>>

\* A held token at the boundary itself: jwt.verify counts it as expired
C27_WitnessBoundary ==
    \E k \in 1..Len(wallet) : /\ now = wallet[k].iat + JwtTTL
                              /\ verifyToken(wallet[k]) = <<>>

\* The account whose password a change-password or reset-password request has
\* just replaced (0 if none)
PasswordChanged ==
    IF out.pc = "done" /\ out.op = "change" /\ out.resp.success THEN out.userId
    ELSE IF out.pc = "done" /\ out.op = "reset" /\ out.resp.success
    THEN out.row.id
    ELSE 0

\* C30: session tokens are not revoked by a password change.  When
\* change-password or reset-password has replaced the password of an account,
\* every session token of the account that a client holds and that is younger
\* than 7 days still passes authenticate; and at every time a guarded route
\* called with a held token younger than 7 days is not answered 401.
C30_NoRevocation ==
    /\ \A k \in 1..Len(wallet) :
          (/\ PasswordChanged # 0
           /\ wallet[k].userId = PasswordChanged
           /\ now < wallet[k].iat + JwtTTL)
             => authenticate(<<wallet[k]>>) = NoResponse
    /\ (/\ out.pc = "done" /\ out.op \in Guarded
        /\ out.auth \in HeldTokens
        /\ now < out.auth[1].iat + JwtTTL)
          => out.resp # Unauthorized

\* reset-password has replaced the password of an account whose session token
\* was minted earlier and is still good
C30_Witness ==
    /\ Answered("reset") /\ out.resp.success
    /\ \E k \in 1..Len(wallet) : /\ wallet[k].userId = out.row.id
                                  /\ wallet[k].iat < now
                                  /\ now < wallet[k].iat + JwtTTL
                                  /\ authenticate(<<wallet[k]>>) = NoResponse

\* The same after change-password, in the last hour of the token
C30_WitnessChange ==
    /\ Answered("change") /\ out.resp.success
    /\ \E k \in 1..Len(wallet) : /\ wallet[k].userId = out.userId
                                  /\ now = wallet[k].iat + JwtTTL - ResetTTL
                                  /\ authenticate(<<wallet[k]>>) = NoResponse

\* The account a register request has just created
Registered ==
    IF out.pc = "done" /\ out.op = "register" /\ out.resp.success
    THEN ByEmail(out.email)
    ELSE {}

\* C28 (first half): the password an account was registered with matches the
\* stored hash.
HashedPasswordMatches ==
    \A id \in Registered : comparePassword(out.password, users[id].password)

\* C28: credential hasher round trip: a password matches the hash stored for
\* the password an account was registered with if and only if the two passwords
\* are equal.
C28_HasherRoundTrip ==
    \A id \in Registered : \A P \in HashInputs :
        comparePassword(P, users[id].password) <=> (P = out.password)

\* The step has written the password column of account id
Written(id) ==
    /\ id \in DOMAIN users'
    /\ id \in DOMAIN users => users'[id].password # users[id].password

\* C29: every write of the password column, by register, reset-password or
\* change-password, stores the bcrypt hash of the password the writing request
\* supplied, and what is stored is not that password itself.
C29_StoredPasswordIsHashed ==
    [][\A id \in 1..MaxUsers :
          Written(id)
             => /\ out'.pc = "done" /\ out'.op \in {"register", "reset", "change"}
                /\ \E salt \in Salts :
                       users'[id].password = hashPassword(out'.password, salt)
                /\ users'[id].password # out'.password]_vars

\* Passwords were written by all three operations: an account was registered,
\* a reset-password has succeeded, and change-password has now stored the hash
\* of a new password
C29_Witness ==
    /\ Answered("change") /\ out.resp.success
    /\ out.userId \in DOMAIN users
    /\ \E salt \in Salts :
           users[out.userId].password = hashPassword(out.password, salt)
    /\ users[out.userId].password # out.password
    /\ \E t \in 1..MaxTokens : consumed[t] > 0

\* The operations of the account state machine
AccountOps == {"register", "verify", "resend", "forgot", "reset", "login", "change"}

\* The request passes the gate and the validation of its handler, so that the
\* handler goes on to its first store call
Queried(req) ==
    CASE req.op = "register" -> ~MalformedRegister(req)
      [] req.op = "verify" -> req.token # NoToken
      [] req.op = "resend" -> ~BadAuth(req.auth)
      [] req.op = "forgot" -> req.email # Missing
      [] req.op = "reset" -> /\ req.token # NoToken /\ req.password # Missing
                             /\ Len(req.password) >= MinPassword
      [] req.op = "login" -> req.email # Missing /\ req.password # Missing
      [] req.op = "change" -> /\ ~BadAuth(req.auth)
                              /\ req.current # Missing /\ req.password # Missing
                              /\ Len(req.password) >= MinPassword
      [] OTHER -> FALSE

\* C31: every request of the account operations ends with one response, and a
\* store call that raises ends it with the server error (500): the request is
\* answered at the step of the failed call, nothing is written, the handler
\* does not go on to its update and makes no second attempt; a handler that is
\* past its first query answers at its next step, whatever the store does.
C31_FaultsEndInServerError ==
    [][/\ (/\ out'.pc = "done" /\ out'.op \in AccountOps
           /\ isDatabaseConnected /\ ~storeUp /\ Queried(out'))
             => /\ out'.resp.status = 500 /\ ~out'.resp.success
                /\ out'.resp.access_token = <<>>
                /\ users' = users
       /\ \A s \in Slots :
             /\ (reqs[s].pc = "idle" /\ reqs'[s].pc = "write") => storeUp
             /\ (reqs[s].pc = "write" /\ reqs'[s] # reqs[s])
                   => /\ reqs'[s] = IdleReq
                      /\ out'.pc = "done" /\ out'.op = reqs[s].op
                      /\ out'.resp # NoResponse
       /\ out'.pc = "done" => out'.resp # NoResponse]_vars

\* The store failed at the UPDATE of reset-password, after its SELECT had
\* found the account
C31_Witness ==
    /\ Answered("reset") /\ out.resp = ServerError
    /\ out.row.id \in DOMAIN users
    /\ isDatabaseConnected /\ ~storeUp
    /\ users[out.row.id].password_reset_token = out.token

\* The columns of the reset axis (with the password) and of the verification
\* axis of an account
ResetAxis(row) ==
    <<row.password, row.password_reset_token, row.password_reset_expires>>

VerifyAxis(row) ==
    <<row.is_email_verified, row.email_verification_token,
      row.email_verification_expires>>

\* The accounts whose stored reset token is T and has not expired
LiveReset(T) ==
    {id \in DOMAIN users : /\ users[id].password_reset_token = T
                           /\ users[id].password_reset_expires >= now}

\* C32: the verification axis and the reset axis are independent.  A step of
\* verify-email or resend-verification leaves the password hash and the reset
\* pair of every account as they were; a step of forgot-password or
\* reset-password leaves the verified flag and the verification pair of every
\* account as they were; and reset-password with a stored unexpired token and a
\* valid password is never refused, whether the account is verified or not: it
\* goes on to its update and is answered success.
C32_AxesIndependent ==
    [][/\ (out'.pc = "done" /\ out'.op \in {"verify", "resend"})
             => \A id \in DOMAIN users : ResetAxis(users'[id]) = ResetAxis(users[id])
       /\ (out'.pc = "done" /\ out'.op \in {"forgot", "reset"})
             => \A id \in DOMAIN users : VerifyAxis(users'[id]) = VerifyAxis(users[id])
       /\ (/\ out'.pc = "done" /\ out'.op = "reset" /\ reqs' = reqs
           /\ Len(out'.password) >= MinPassword)
             => LiveReset(out'.token) = {}
       /\ (/\ out'.pc = "done" /\ out'.op = "reset" /\ reqs' # reqs)
             => out'.resp.success]_vars

\* reset-password has succeeded for an account that is not verified and still
\* has its verification pair
C32_Witness ==
    /\ Answered("reset") /\ out.resp.success
    /\ ~users[out.row.id].is_email_verified
    /\ users[out.row.id].email_verification_token # NULL

\* reset-password has succeeded for a verified account
C32_WitnessVerified ==
    /\ Answered("reset") /\ out.resp.success
    /\ users[out.row.id].is_email_verified

\* verify-email has succeeded for an account with a pending reset pair
C32_WitnessVerify ==
    /\ Answered("verify") /\ out.resp.success
    /\ users[out.row.id].is_email_verified
    /\ users[out.row.id].password_reset_token # NULL

\* C33: a successful reset-password clears only the reset token it was
\* presented with: the step that answers success for token T leaves in place
\* every stored reset token other than T, so a token that forgot-password
\* stored for the account after the lookup of T is still stored afterwards.
C33_ResetClearsOnlyItsToken ==
    [][(out'.pc = "done" /\ out'.op = "reset" /\ out'.resp.success)
          => \A id \in DOMAIN users :
                 (/\ users[id].password_reset_token # NULL
                  /\ users[id].password_reset_token # out'.token)
                    => /\ users'[id].password_reset_token =
                             users[id].password_reset_token
                       /\ users'[id].password_reset_expires =
                             users[id].password_reset_expires]_vars

\* C34: a successful change-password changes the password hash of the
\* authenticated account and nothing else: the reset pair, the verification
\* pair and the verified flag of the account and every other account stay as
\* they were, and a reset token of the account that was pending and has not
\* expired is still taken by reset-password afterwards.
C34_ChangeWritesPasswordOnly ==
    [][\A T \in 1..MaxTokens : \A P \in Passwords :
          (out'.pc = "done" /\ out'.op = "change" /\ out'.resp.success)
             => /\ out'.userId \in DOMAIN users
                /\ users' = [users EXCEPT ![out'.userId] =
                                 [@ EXCEPT !.password = users'[out'.userId].password]]
                /\ (/\ users[out'.userId].password_reset_token = T
                    /\ users[out'.userId].password_reset_expires >= now)
                      => ResetAnswer(T, P)' = NoResponse]_vars

\* change-password has succeeded for an account with a pending reset token
C34_Witness ==
    /\ Answered("change") /\ out.resp.success
    /\ out.userId \in DOMAIN users
    /\ users[out.userId].password_reset_token # NULL
    /\ users[out.userId].password_reset_expires >= now
    /\ users[out.userId].password[3] = out.password

\* The error results of the operations: validation error, invalid or unknown
\* token, token expired, already verified, duplicate email (400), wrong current
\* password, invalid credentials (401), email not verified (403)
ErrorResult(resp) == resp.status \in {400, 401, 403} /\ ~resp.success

\* C35: login never modifies the store, and a request that is answered with an
\* error result leaves every account record, and the number of accounts, as
\* they were before the request.
C35_ErrorsChangeNothing ==
    [][(/\ out'.pc = "done"
        /\ out'.op = "login" \/ ErrorResult(out'.resp))
          => /\ users' = users
             /\ nextId' = nextId
             /\ reqs' = reqs]_vars

\* A login was refused because the account is not verified
C35_Witness ==
    /\ Answered("login") /\ out.resp = EmailNotVerified
    /\ \E id \in ByEmail(out.email) : users[id].password_reset_token # NULL

\* The expiry stored with verification token T of an unverified account, and
\* with reset token T (the tokens are unique; empty if T is not stored)
VerifyExpiries(T) ==
    {users[id].email_verification_expires :
        id \in {k \in DOMAIN users : /\ users[k].email_verification_token = T
                                     /\ ~users[k].is_email_verified}}

ResetExpiries(T) ==
    {users[id].password_reset_expires :
        id \in {k \in DOMAIN users : users[k].password_reset_token = T}}

\* verify-email or reset-password with stored token T, whose expiry is one of
\* `expiries`: accepted (the handler goes on to its update) when the expiry is
\* not before the current time, refused with TokenExpired when it is
ExpiryBoundary(op, T, expiries) ==
    /\ WentOn(op, T) => \E e \in expiries : e >= now
    /\ (AnsweredAtOnce(op, T) /\ expiries # {})
          => /\ \A e \in expiries : e < now
             /\ out'.resp = TokenExpired

\* C36: verify-email and reset-password (with a body that passes validation)
\* treat a stored token as expired exactly when its stored expiry is strictly
\* earlier than the current time: at a time equal to the expiry the request is
\* accepted and answered success, at any later time it is answered
\* TokenExpired.
C36_ExpiredStrictlyAfterExpiry ==
    [][/\ \A T \in 1..MaxTokens :
             /\ ExpiryBoundary("verify", T, VerifyExpiries(T))
             /\ ExpiryBoundary("reset", T, ResetExpiries(T))
       /\ \A s \in Slots :
             (/\ reqs[s].pc = "write" /\ reqs[s].op \in {"verify", "reset"}
              /\ reqs'[s] # reqs[s])
                => out'.resp.success]_vars

\* reset-password was accepted at the very instant its token expires
C36_Witness ==
    /\ Answered("reset") /\ out.resp.success
    /\ out.row.expires = now

\* verify-email was accepted at the very instant its token expires
C36_WitnessVerify ==
    /\ Answered("verify") /\ out.resp.success
    /\ out.row.expires = now

\* reset-password was refused one hour after the expiry of its token
C36_WitnessLater ==
    /\ Answered("reset") /\ out.resp = TokenExpired
    /\ \E id \in DOMAIN users : /\ users[id].password_reset_token = out.token
                                /\ users[id].password_reset_expires + ResetTTL = now

\* The token a header carries when it is a single token, with or without the
\* text 'Bearer ' before it (<<>> for every other header)
Carried(header) ==
    IF Len(header) = 1 /\ header[1] # BearerPrefix THEN <<header[1]>>
    ELSE IF Len(header) = 2 /\ header[1] = BearerPrefix /\ header[2] # BearerPrefix
    THEN <<header[2]>>
    ELSE <<>>

\* The header carries a token signed with the server's key, not expired, whose
\* user id is not 0
Resolves(header) ==
    /\ Carried(header) # <<>>
    /\ Carried(header)[1].sig = "secret"
    /\ now < Carried(header)[1].exp
    /\ Carried(header)[1].userId # 0

\* C37: authenticate resolves a request to an account identity exactly when
\* the Authorization value without its first 'Bearer ' is a token that
\* verifyToken accepts and whose userId is truthy, and the identity is that
\* userId: a validly signed token is accepted with the prefix and without it,
\* a validly signed token with userId 0 is answered 401, and so is every other
\* header.
C37_GateResolvesIdentity ==
    [][/\ (out'.pc = "done" /\ out'.op \in Guarded /\ reqs' = reqs)
             => /\ out'.resp = Unauthorized <=> ~Resolves(out'.auth)
                /\ Resolves(out'.auth)
                      => out'.userId = Carried(out'.auth)[1].userId
       /\ \A s \in Slots :
             (/\ reqs[s].pc = "idle" /\ reqs'[s].pc = "write"
              /\ reqs'[s].op \in Guarded)
                => /\ Resolves(reqs'[s].auth)
                   /\ reqs'[s].userId = Carried(reqs'[s].auth)[1].userId]_vars

\* A guarded route has let in a session token sent without 'Bearer '
C37_Witness ==
    /\ Answered("me") /\ out.resp = Json(200, TRUE, "user")
    /\ Len(out.auth) = 1 /\ out.auth[1].sig = "secret"
    /\ out.userId = out.auth[1].userId

\* A guarded route has refused a validly signed token that names user id 0
C37_WitnessZero ==
    /\ Answered("me") /\ out.resp = Unauthorized
    /\ out.auth = <<BearerPrefix, ZeroToken>>
    /\ verifyToken(ZeroToken) # <<>>

\* A guarded route has refused a session token sent after 'Bearer Bearer '
C37_WitnessTwice ==
    /\ Answered("me") /\ out.resp = Unauthorized
    /\ Len(out.auth) = 3 /\ verifyToken(out.auth[3]) # <<>>
    /\ out.auth[3].userId \in DOMAIN users

UserNotFound == Json(404, FALSE, "user not found")

\* C38: resend-verification and change-password act only on the account whose
\* id the presented session token carries.  The id the handler works with is
\* the userId of the token; when the table has no row with that id the request
\* is answered 404 "user not found" and nothing is written; otherwise the
\* answer is decided by that row (already verified, wrong current password)
\* and the update changes that row and no other.
C38_GuardedActsOnTokenAccount ==
    [][(/\ out'.pc = "done" /\ out'.op \in {"resend", "change"}
        /\ out'.resp # Unauthorized)
          => /\ out'.auth # <<>>
             /\ out'.userId = out'.auth[1].userId
             /\ out'.userId \notin DOMAIN users
                   => out'.resp = UserNotFound /\ users' = users /\ reqs' = reqs
             /\ out'.userId \in DOMAIN users
                   => /\ out'.resp # UserNotFound
                      /\ \A k \in DOMAIN users :
                             k # out'.userId => users'[k] = users[k]
                      /\ out'.resp = AlreadyVerified
                            => users[out'.userId].is_email_verified
                      /\ out'.resp = Json(401, FALSE, "wrong current password")
                            => ~comparePassword(out'.current,
                                                users[out'.userId].password)]_vars

\* change-password with a token that names no account was answered 404
C38_Witness ==
    /\ Answered("change") /\ out.resp = UserNotFound
    /\ out.auth # <<>> /\ verifyToken(out.auth[1]) # <<>>
    /\ out.auth[1].userId \notin DOMAIN users

\* resend-verification has replaced the token of the second account and left
\* the first as it was
C38_WitnessOther ==
    /\ Answered("resend") /\ out.resp.success
    /\ out.userId = 2 /\ DOMAIN users = {1, 2}
    /\ users[2].email_verification_token = out.mailed
    /\ users[1].email_verification_token = 1

====
